---------------------------- MODULE Spec2Model ----------------------------
(***************************************************************************)
(* npm-auditor (src/index.js): how the dependency tree of the audit        *)
(* request is obtained.  getAllDependencies tries package-lock.json, then  *)
(* npm-shrinkwrap.json (both through filterTree), then                     *)
(* scanInstalledDependencies, which walks the installed node_modules       *)
(* layout.  Strings that the code inspects character by character (paths,  *)
(* package names) are sequences of one-character strings; JavaScript       *)
(* objects are functions from their keys to their values.  The synchronous *)
(* recursion of the scan is an explicit call stack, one step per call,     *)
(* loop iteration or return.  The file system is read-only while the       *)
(* program runs: what a read finds is fixed the first time the program     *)
(* looks at a place and stays as found.                                    *)
(***************************************************************************)
EXTENDS Integers, Sequences, FiniteSets, TLC

VARIABLES pc, consulted, loaded, lastRead, result,
          fs, edges,
          topLevelDeps, packageCache, devFlag, stack, rootPhase, rootIdx,
          scanResult, entered, lastStep

vars == <<pc, consulted, loaded, lastRead, result, fs, edges, topLevelDeps,
          packageCache, devFlag, stack, rootPhase, rootIdx, scanResult,
          entered, lastStep>>

loaderVars == <<consulted, loaded, lastRead>>
scanVars   == <<fs, edges, topLevelDeps, packageCache, devFlag, stack,
                rootPhase, rootIdx, scanResult, entered, lastStep>>

----------------------------------------------------------------------------
(* Bounds of the model.                                                    *)

\* Names a revealed manifest lists: at most MaxDeps per dependency list.
MaxDeps == 2
\* Dependency names listed by all the manifests revealed in one run.
MaxEdges == 3
\* Frames the call stack holds before the engine raises RangeError.
MaxStack == 3
\* Nesting depth of the `dependencies` maps of a lock file.
MaxLockDepth == 1

----------------------------------------------------------------------------
(* Strings and paths.                                                      *)

NODE_MODULES == <<"n","o","d","e","_","m","o","d","u","l","e","s">>
PACKAGE_JSON == <<"p","a","c","k","a","g","e",".","j","s","o","n">>

\* String.prototype.indexOf: the first (0-based) place of t in s, or -1.
indexOf(s, t) ==
    LET hits == {i \in 0..(Len(s) - Len(t)) : SubSeq(s, i + 1, i + Len(t)) = t}
    IN  IF hits = {} THEN -1 ELSE CHOOSE i \in hits : \A k \in hits : i <= k

LastSlash(p) ==
    LET slashes == {i \in 1..Len(p) : p[i] = "/"}
    IN  IF slashes = {} THEN 0 ELSE CHOOSE i \in slashes : \A k \in slashes : k <= i

\* path.dirname
dirname(p) ==
    IF LastSlash(p) = 0 THEN <<".">>
    ELSE IF LastSlash(p) = 1 THEN <<"/">>
    ELSE SubSeq(p, 1, LastSlash(p) - 1)

basename(p) == SubSeq(p, LastSlash(p) + 1, Len(p))

\* path.join of a directory and one more segment
join(a, b) == IF a = <<"/">> THEN a \o b ELSE a \o <<"/">> \o b

\* The process's working directory, where package.json is looked for.
Cwd == <<"/", "a">>

\* path.resolve('package.json')
packageJsonPath == join(Cwd, PACKAGE_JSON)
packageDir == dirname(packageJsonPath)
packageNodeModules == join(packageDir, NODE_MODULES)

\* Module._nodeModulePaths: the node_modules directories searched from a
\* directory, the nearest first; a segment named node_modules adds none.
RECURSIVE nodeModulePaths(_)
nodeModulePaths(from) ==
    IF from = <<"/">> THEN << join(from, NODE_MODULES) >>
    ELSE (IF basename(from) = NODE_MODULES THEN << >>
          ELSE << join(from, NODE_MODULES) >>) \o nodeModulePaths(dirname(from))

\* The directories where `name` may be found from fromDir, in search order.
Candidates(fromDir, chars) ==
    [k \in 1..Len(nodeModulePaths(fromDir)) |-> join(nodeModulePaths(fromDir)[k], chars)]

----------------------------------------------------------------------------
(* Package names and install places of the explored layouts.               *)

\* Package names are strings (object keys); Chars gives the characters of
\* a name where the code splices it into a path.
Chars ==
    [a |-> <<"a">>, ab |-> <<"a","b">>, c |-> <<"c">>] @@
    ("left-pad" :> <<"l","e","f","t","-","p","a","d">>)

FreeNames == {"a", "ab", "c"}
Names == FreeNames \cup {"left-pad"}

\* node_modules/<n> of the project: the shared root
Shared(n) == join(packageNodeModules, Chars[n])
\* <parent>/node_modules/<n>: an install private to its parent
Nested(parent, n) == join(join(parent, NODE_MODULES), Chars[n])
\* /node_modules/<n>: an install above the project tree
Outside(n) == join(join(<<"/">>, NODE_MODULES), Chars[n])

InstallDirs ==
    {Shared(n) : n \in Names}
      \cup {Nested(Shared(m), n) : m \in FreeNames, n \in FreeNames}
      \cup {Outside(n) : n \in FreeNames}
      \cup {Nested(Outside("c"), n) : n \in FreeNames}


----------------------------------------------------------------------------
(* JavaScript values.  An object is the function from its keys to their    *)
(* values; null, undefined and a string standing where an object is        *)
(* expected are tagged records (no object of the model has a key `kind`).  *)

NullValue      == [kind |-> "null"]
UndefinedValue == [kind |-> "undefined"]
StringValue    == [kind |-> "string"]
EmptyObject    == << >>

\* An undefined scalar (a version or an integrity that the manifest lacks).
Undefined == "undefined"

IsObject(v) == "kind" \notin DOMAIN v

\* obj[key] of a scalar field, undefined when the key is missing
Get(obj, key) == IF key \in DOMAIN obj THEN obj[key] ELSE Undefined

\* pick that copies the whole object
pickEverything(v, props) ==
    IF IsObject(v) THEN v ELSE EmptyObject

\* pick that keeps `integrity` only for a node that has `resolved`
pickIntegrityOfResolved(v, props) ==
    IF IsObject(v)
    THEN [f \in ((DOMAIN v) \cap props) \
                  (IF "resolved" \in DOMAIN v THEN {} ELSE {"integrity"}) |-> v[f]]
    ELSE EmptyObject

\* lodash pick: the listed keys that the value has; {} for a non-object
pick(v, props) ==
    IF IsObject(v) THEN [f \in (DOMAIN v) \cap props |-> v[f]] ELSE EmptyObject

LOCKED_DEPENDENCIES_REQUIRED_PROPERTIES == {"version", "dev", "requires", "integrity"}
LOCKED_DEPENDENCIES_REQUIRED_PROPERTIES_WITH_DEPS ==
    LOCKED_DEPENDENCIES_REQUIRED_PROPERTIES \cup {"dependencies"}

----------------------------------------------------------------------------
(* filterTree and the lock files.                                          *)

\* packageInfo.dependencies is read on every node: a null node raises.
RECURSIVE filterTreeThrows(_)
filterTreeThrows(packageTree) ==
    /\ IsObject(packageTree)
    /\ \E name \in DOMAIN packageTree :
          \/ packageTree[name] = NullValue
          \/ /\ IsObject(packageTree[name])
             /\ "dependencies" \in DOMAIN packageTree[name]
             /\ filterTreeThrows(packageTree[name].dependencies)

\* mapValues over the tree ({} for undefined); every node is cut down to
\* the required properties, and its dependencies, when it has any, filtered.
RECURSIVE filterTree(_)
filterTree(packageTree) ==
    IF ~IsObject(packageTree) THEN EmptyObject
    ELSE [name \in DOMAIN packageTree |->
            LET packageInfo  == packageTree[name]
                requiredInfo == pick(packageInfo, LOCKED_DEPENDENCIES_REQUIRED_PROPERTIES)
            IN  IF IsObject(packageInfo) /\ "dependencies" \in DOMAIN packageInfo
                THEN requiredInfo @@
                       [dependencies |-> filterTree(packageInfo.dependencies)]
                ELSE requiredInfo]

\* Raw lock nodes without children.
LeafObjects ==
    { EmptyObject,
      [version |-> "1.0.0", resolved |-> "https://r/x-1.0.0.tgz", integrity |-> "sha1-abc"],
      [version |-> "2.0.0", dev |-> TRUE, requires |-> [c |-> "1.0.0"], bundled |-> TRUE] }

RECURSIVE RawNodes(_)
\* Raw lock nodes whose dependencies nest at most d levels.
RawNodes(d) ==
    {NullValue, StringValue} \cup LeafObjects \cup
    (IF d = 0 THEN {}
     ELSE { o @@ [dependencies |-> t] :
              o \in LeafObjects \ {EmptyObject},
              t \in {EmptyObject} \cup { ("c" :> n) : n \in RawNodes(d - 1) } })

\* The `dependencies` mappings a lock file may hold: no package, one
\* package, or that package and a second one without children.
LockTrees ==
    {EmptyObject}
      \cup { ("a" :> n) : n \in RawNodes(MaxLockDepth) }
      \cup { ("a" :> n) @@ ("c" :> m) :
                n \in RawNodes(MaxLockDepth), m \in RawNodes(0) }

\* What reading and parsing a lock file gives.
LockFiles ==
    { [kind |-> "missing"], [kind |-> "unparsable"],
      [kind |-> "json", doc |-> NullValue],
      [kind |-> "json", doc |-> StringValue],
      [kind |-> "json", doc |-> [lockfileVersion |-> "1"]] }
      \cup { [kind |-> "json", doc |-> [lockfileVersion |-> "1", dependencies |-> t]] :
               t \in LockTrees }

\* a loader that rejects a document without `dependencies`
getNpmLockDependenciesStrict(file) ==
    IF file.kind # "json" THEN [rejected |-> TRUE]
    ELSE IF file.doc = NullValue THEN [rejected |-> TRUE]
    ELSE IF "dependencies" \notin DOMAIN file.doc THEN [rejected |-> TRUE]
    ELSE IF filterTreeThrows(file.doc.dependencies) THEN [rejected |-> TRUE]
    ELSE [rejected |-> FALSE, value |-> filterTree(file.doc.dependencies)]

\* readFile(...).then(c => filterTree(JSON.parse(c.toString()).dependencies))
\* Reading `dependencies` of null raises; of a string it gives undefined.
getNpmLockDependencies(file) ==
    IF file.kind # "json" THEN [rejected |-> TRUE]
    ELSE IF file.doc = NullValue THEN [rejected |-> TRUE]
    ELSE LET tree == IF "dependencies" \in DOMAIN file.doc
                     THEN file.doc.dependencies ELSE UndefinedValue
         IN  IF filterTreeThrows(tree) THEN [rejected |-> TRUE]
             ELSE [rejected |-> FALSE, value |-> filterTree(tree)]

PACKAGE_LOCK == "package-lock.json"
NPM_SHRINKWRAP == "npm-shrinkwrap.json"
SCANNER == "scanInstalledDependencies"

\* The text of the error of the last catch, cut at the file names.
FinalErrorMessage ==
    << "Failed to get locked dependencies from ", PACKAGE_LOCK, " or ",
       NPM_SHRINKWRAP, "!" >>

Pending == [kind |-> "pending"]
TreeResult(t) == [kind |-> "tree", tree |-> t]
ErrorResult(m) == [kind |-> "error", message |-> m]

----------------------------------------------------------------------------
(* The installed layout: manifests on disk.                                *)

Absent    == [kind |-> "absent"]
Malformed == [kind |-> "malformed"]

\* Dependency lists (the keys of a `dependencies` object, in order).
DepLists ==
    { l \in UNION { [1..k -> FreeNames] : k \in 0..MaxDeps } :
        \A i, j \in DOMAIN l : l[i] = l[j] => i = j }

\* Version and integrity of the package installed at a place: one version
\* per kind of place, and no _integrity on installs above the project.
VersionAt(dir) ==
    IF dirname(dir) = packageNodeModules THEN "1.3.0"
    ELSE IF indexOf(dir, packageNodeModules) = 0 THEN "2.0.0"
    ELSE "0.9.0"

BaseManifest(dir) ==
    IF indexOf(dir, packageNodeModules) = 0
    THEN [version |-> VersionAt(dir), _integrity |-> "sha1-abc"]
    ELSE [version |-> VersionAt(dir)]

WithDeps(m, key, list) == m @@ (key :> list)

\* Object.keys(m[key]).length, 0 when the key is missing
DepCount(m, key) == IF key \in DOMAIN m THEN Len(m[key]) ELSE 0

\* The manifests a newly found package may hold, within the edge budget.
PackageManifests(dir, budget) ==
    {Malformed, BaseManifest(dir)} \cup
    { WithDeps(BaseManifest(dir), "dependencies", l) :
        l \in {d \in DepLists : Len(d) <= budget} }

ProjectBase == [name |-> "project", version |-> "0.1.0"]

\* The project manifests: either key may be missing.
ProjectManifests(budget) ==
    {Malformed} \cup
    { p \in UNION { { ProjectBase,
                      WithDeps(ProjectBase, "dependencies", l),
                      WithDeps(ProjectBase, "devDependencies", d),
                      WithDeps(WithDeps(ProjectBase, "dependencies", l),
                               "devDependencies", d) } :
                    l \in DepLists, d \in DepLists } :
        DepCount(p, "dependencies") + DepCount(p, "devDependencies") <= budget }


\* A layout known in full: the project manifest and the installed packages.
Layout(root, pkgs) ==
    [d \in InstallDirs \cup {packageDir} |->
        IF d = packageDir THEN root
        ELSE IF d \in DOMAIN pkgs THEN pkgs[d] ELSE Absent]

BothKeys(deps, dev) ==
    WithDeps(WithDeps(ProjectBase, "dependencies", deps), "devDependencies", dev)

\* The project of the end-to-end scenario: one dependency, left-pad, at the
\* shared root; the manifest declares `dependencies` only.
LeftPadLayout ==
    Layout(WithDeps(ProjectBase, "dependencies", <<"left-pad">>),
           Shared("left-pad") :> BaseManifest(Shared("left-pad")))

\* The same project with an empty `devDependencies`.
LeftPadDevLayout ==
    Layout(BothKeys(<<"left-pad">>, << >>),
           Shared("left-pad") :> BaseManifest(Shared("left-pad")))

\* c requires a and ab, which both require left-pad; all at the shared root.
DiamondLayout ==
    Layout(BothKeys(<<"c">>, << >>),
           (Shared("c") :> WithDeps(BaseManifest(Shared("c")), "dependencies", <<"a", "ab">>))
        @@ (Shared("a") :> WithDeps(BaseManifest(Shared("a")), "dependencies", <<"left-pad">>))
        @@ (Shared("ab") :> WithDeps(BaseManifest(Shared("ab")), "dependencies", <<"left-pad">>))
        @@ (Shared("left-pad") :> BaseManifest(Shared("left-pad"))))

\* a (shared root) requires c, found at the shared root; ab is installed
\* above the project and requires c, found above the project too.
SecondInstallLayout ==
    Layout(BothKeys(<<"a", "ab">>, << >>),
           (Shared("a") :> WithDeps(BaseManifest(Shared("a")), "dependencies", <<"c">>))
        @@ (Shared("c") :> BaseManifest(Shared("c")))
        @@ (Outside("ab") :> WithDeps(BaseManifest(Outside("ab")), "dependencies", <<"c">>))
        @@ (Outside("c") :> BaseManifest(Outside("c"))))

\* What is known of the file system at the start: nothing (every place is
\* decided when the program first looks at it), or one of the layouts above.
Worlds == { << >>, LeftPadLayout, LeftPadDevLayout, DiamondLayout, SecondInstallLayout }

\* A place that holds no package: known to be empty, or no install place.
NotInstalled(d) == IF d \in DOMAIN fs THEN fs[d] = Absent ELSE TRUE
\* A place that holds, or may turn out to hold, a package.
MayHold(d) == IF d \in DOMAIN fs THEN fs[d] # Absent ELSE d \in InstallDirs

\* fs with the places ds, as far as undecided, found empty
FoundEmpty(ds) == fs @@ [d \in (ds \cap InstallDirs) \ DOMAIN fs |-> Absent]

\* resolveFrom(fromDir, name + '/package.json'): the outcomes the file
\* system allows.  The first candidate that holds a package is the answer;
\* every candidate before it is found empty.
Resolutions(fromDir, name) ==
    LET cands == Candidates(fromDir, Chars[name])
        before(k) == {cands[i] : i \in 1..(k - 1)}
    IN  (IF \A i \in 1..Len(cands) : NotInstalled(cands[i])
         THEN { [found |-> FALSE, fs |-> FoundEmpty(before(Len(cands) + 1)),
                 edges |-> edges] }
         ELSE {})
        \cup UNION {
          IF cands[k] \in DOMAIN fs
          THEN { [found |-> TRUE, dir |-> cands[k], fs |-> FoundEmpty(before(k)),
                  edges |-> edges] }
          ELSE { [found |-> TRUE, dir |-> cands[k],
                  fs |-> FoundEmpty(before(k)) @@ (cands[k] :> m),
                  edges |-> edges + DepCount(m, "dependencies")] :
                   m \in PackageManifests(cands[k], MaxEdges - edges) } :
          k \in {i \in 1..Len(cands) :
                   /\ MayHold(cands[i])
                   /\ \A h \in 1..(i - 1) : NotInstalled(cands[h])} }


----------------------------------------------------------------------------
(* scanInstalledDependencies: the classification and the records.          *)

isTopLevelDep(depPackageDir) ==
    \/ indexOf(depPackageDir, packageDir) < 0
    \/ dirname(depPackageDir) = packageNodeModules

\* the two directories taken in the wrong order
isLocalDepSwapped(depPackageDir, parentPackageDir) ==
    indexOf(parentPackageDir, depPackageDir) = 0

isLocalDep(depPackageDir, parentPackageDir) ==
    indexOf(depPackageDir, parentPackageDir) = 0

\* Object.keys that takes a missing property for an empty object
ObjectKeysLenient(obj, key) ==
    [threw |-> FALSE, keys |-> IF key \in DOMAIN obj THEN obj[key] ELSE << >>]

\* Object.keys(obj[key]): the keys in order; a TypeError when obj has no
\* such property (Object.keys(undefined)).
ObjectKeys(obj, key) ==
    IF key \in DOMAIN obj THEN [threw |-> FALSE, keys |-> obj[key]]
    ELSE [threw |-> TRUE, keys |-> << >>]

\* The branch the loop of collectDepPackageInfo takes for one sub-dependency;
\* claimed: topLevelDeps already has an entry of that name.
ClassifyBranch(subDepDir, depPackageDir, claimed) ==
    IF isLocalDep(subDepDir, depPackageDir) THEN "local"
    ELSE IF isTopLevelDep(subDepDir) /\ ~claimed THEN "top"
    ELSE IF indexOf(subDepDir, packageDir) = 0 THEN "fallback"
    ELSE "dropped"

\* What is copied from a cached record into the tree.
TreeRecord(subDepInfo) ==
    pick(subDepInfo, LOCKED_DEPENDENCIES_REQUIRED_PROPERTIES_WITH_DEPS)

\* A call of collectDepPackageInfo in progress: the manifest, the
\* sub-dependencies resolved so far (infos, i of them) and classified so far
\* (j of them, the local ones in dependencies).
NewFrame(path, json) ==
    [path |-> path, dir |-> dirname(path), json |-> json,
     i |-> 0, infos |-> EmptyObject, j |-> 0, dependencies |-> EmptyObject]

HasDeps(frame) == "dependencies" \in DOMAIN frame.json
SubDeps(frame) == frame.json.dependencies

\* a record that keeps the `dependencies` object also when it is empty
depPackageInfoKeepEmpty(frame, dev) ==
    [packageDir |-> frame.dir,
     version    |-> Get(frame.json, "version"),
     integrity  |-> Get(frame.json, "_integrity")]
      @@ (IF dev THEN [dev |-> TRUE] ELSE EmptyObject)
      @@ (IF HasDeps(frame)
          THEN [requires |-> [n \in DOMAIN frame.infos |-> frame.infos[n].version],
                dependencies |-> frame.dependencies]
          ELSE EmptyObject)

\* The record a finished call returns.
depPackageInfo(frame, dev) ==
    [packageDir |-> frame.dir,
     version    |-> Get(frame.json, "version"),
     integrity  |-> Get(frame.json, "_integrity")]
      @@ (IF dev THEN [dev |-> TRUE] ELSE EmptyObject)
      @@ (IF HasDeps(frame)
          THEN [requires |-> [n \in DOMAIN frame.infos |-> frame.infos[n].version]]
          ELSE EmptyObject)
      @@ (IF HasDeps(frame) /\ DOMAIN frame.dependencies # {}
          THEN [dependencies |-> frame.dependencies]
          ELSE EmptyObject)

\* a chain built with then(): the next source is tried after a success too
onSettledThen(source, rejected) ==
    IF source = PACKAGE_LOCK THEN "fallback"
    ELSE IF source = NPM_SHRINKWRAP THEN "scan"
    ELSE "done"

\* The promise chain of getAllDependencies: where it goes once a source
\* has settled.
onSettled(source, rejected) ==
    IF ~rejected THEN "done"
    ELSE IF source = PACKAGE_LOCK THEN "fallback"
    ELSE IF source = NPM_SHRINKWRAP THEN "scan"
    ELSE "done"

\* a chain without its last catch: what the scan threw reaches the caller
lastCatchMissing(scan) == scan

\* The value of the chain once the scan has settled: the last catch replaces
\* whatever the scan threw.
lastCatch(scan) ==
    IF scan.kind = "error" THEN ErrorResult(FinalErrorMessage) ELSE scan

ScanError == [kind |-> "error"]

\* a scan that swallows the exception and returns what it has so far
scanFailureBestEffort(tops) == TreeResult(tops)

\* What a scan that has thrown leaves behind: the exception, and no value.
scanFailure(tops) == ScanError

----------------------------------------------------------------------------
(* The state machine.                                                      *)

Init ==
    /\ pc = "primary"
    /\ consulted = << >>
    /\ loaded = [source |-> "none"]
    /\ lastRead = [source |-> "none"]
    /\ result = Pending
    /\ fs \in Worlds
    /\ edges = 0
    /\ topLevelDeps = EmptyObject
    /\ packageCache = EmptyObject
    /\ devFlag = FALSE
    /\ stack = << >>
    /\ rootPhase = "prod"
    /\ rootIdx = 0
    /\ scanResult = Pending
    /\ entered = EmptyObject
    /\ lastStep = [op |-> "init", threw |-> FALSE]

\* getNpmLockDependencies(source) settles, and the chain moves on.
Load(at, source) ==
    /\ pc = at
    /\ \E file \in LockFiles :
         LET r == getNpmLockDependencies(file)
         IN  /\ consulted' = Append(consulted, source)
             /\ lastRead' = [source |-> source, file |-> file,
                             rejected |-> r.rejected]
             /\ pc' = onSettled(source, r.rejected)
             /\ IF r.rejected
                THEN UNCHANGED <<loaded, result>>
                ELSE /\ loaded' = [source |-> source, file |-> file]
                     /\ result' = TreeResult(r.value)
    /\ UNCHANGED scanVars

LoadPrimary == Load("primary", PACKAGE_LOCK)

LoadFallback == Load("fallback", NPM_SHRINKWRAP)

\* An exception leaves the scan: nothing is returned, and the chain of
\* getAllDependencies ends in its last catch.
Throws(step) ==
    /\ scanResult' = scanFailure(topLevelDeps)
    /\ result' = lastCatch(scanFailure(topLevelDeps))
    /\ pc' = "done"
    /\ stack' = << >>
    /\ lastStep' = [op |-> step, threw |-> TRUE]

\* The scan starts: package.json is loaded and the keys of its
\* `dependencies` are taken.
ScanStart ==
    /\ pc = "scan"
    /\ consulted' = Append(consulted, SCANNER)
    /\ lastRead' = [source |-> "none"]
    /\ \E m \in (IF packageDir \in DOMAIN fs THEN {fs[packageDir]}
                 ELSE ProjectManifests(MaxEdges - edges)) :
         /\ fs' = (packageDir :> m) @@ fs
         /\ edges' = IF packageDir \in DOMAIN fs THEN edges
                     ELSE edges + DepCount(m, "dependencies")
                                + DepCount(m, "devDependencies")
         /\ IF ~IsObject(m) \/ ObjectKeys(m, "dependencies").threw
            THEN Throws("start")
            ELSE /\ pc' = "scanning"
                 /\ lastStep' = [op |-> "start", threw |-> FALSE]
                 /\ UNCHANGED <<result, scanResult, stack>>
    /\ UNCHANGED <<loaded, topLevelDeps, packageCache, devFlag, rootPhase,
                   rootIdx, entered>>

Top == stack[Len(stack)]

\* How many times collectDepPackageInfo was entered for a manifest path.
Entered(path) == IF path \in DOMAIN entered THEN entered[path].n ELSE 0

\* a lookup that never finds the record stored by an earlier call
isCachedNever(depPackageJsonPath) == FALSE

\* `packageCache[depPackageJsonPath]` is truthy: a record was stored.
isCached(depPackageJsonPath) == depPackageJsonPath \in DOMAIN packageCache

\* a cache that also answers for a path whose resolution is in progress,
\* with the record as far as it is known when the resolution starts
cacheLookupInProgress(depPackageJsonPath) ==
    IF isCached(depPackageJsonPath)
    THEN [hit |-> TRUE, info |-> packageCache[depPackageJsonPath]]
    ELSE [hit  |-> \E k \in DOMAIN stack : stack[k].path = depPackageJsonPath,
          info |-> [packageDir |-> dirname(depPackageJsonPath),
                    version |-> Undefined, integrity |-> Undefined]]

\* What getDepPackageInfo finds in packageCache: the stored record is
\* returned as it is; otherwise collectDepPackageInfo is entered.
cacheLookup(depPackageJsonPath) ==
    IF isCached(depPackageJsonPath)
    THEN [hit |-> TRUE, info |-> packageCache[depPackageJsonPath]]
    ELSE [hit |-> FALSE, info |-> EmptyObject]

RootList ==
    ObjectKeys(fs[packageDir],
               IF rootPhase = "prod" THEN "dependencies" ELSE "devDependencies").keys

\* a test that never sees the entry written by an earlier claim
isClaimedNever(subDep) == FALSE

\* `topLevelDeps[subDep]` is truthy: the name has a top-level entry.
isClaimed(subDep) == subDep \in DOMAIN topLevelDeps

\* The caller receives the value of getDepPackageInfo(.., name): the root
\* loop drops it, mapValues keeps it under the name.
ReturnTo(callers, name, info) ==
    IF callers = << >>
    THEN /\ stack' = << >>
         /\ rootIdx' = rootIdx + 1
    ELSE /\ stack' = [callers EXCEPT ![Len(callers)] =
                        [@ EXCEPT !.infos = (name :> info) @@ @, !.i = @ + 1]]
         /\ UNCHANGED rootIdx

\* One call of getDepPackageInfo(parentDir, name) up to the point where it
\* returns the cached record, enters collectDepPackageInfo or throws.
getDepPackageInfo(name, r) ==
    /\ fs' = r.fs
    /\ edges' = r.edges
    /\ IF ~r.found
       THEN /\ Throws("call")
            /\ UNCHANGED <<rootIdx, entered>>
       ELSE LET depPackageJsonPath == join(r.dir, PACKAGE_JSON)
            IN  IF cacheLookup(depPackageJsonPath).hit
                THEN /\ ReturnTo(stack, name, cacheLookup(depPackageJsonPath).info)
                     /\ lastStep' = [op |-> "call", threw |-> FALSE]
                     /\ UNCHANGED <<pc, result, scanResult, entered>>
                ELSE /\ entered' =
                          (depPackageJsonPath :>
                             [n   |-> Entered(depPackageJsonPath) + 1,
                              dev |-> IF depPackageJsonPath \in DOMAIN entered
                                      THEN entered[depPackageJsonPath].dev
                                      ELSE devFlag]) @@ entered
                     /\ IF Len(stack) >= MaxStack \/ ~IsObject(r.fs[r.dir])
                        THEN /\ Throws("call")
                             /\ UNCHANGED rootIdx
                        ELSE /\ stack' = Append(stack,
                                            NewFrame(depPackageJsonPath, r.fs[r.dir]))
                             /\ lastStep' = [op |-> "call", threw |-> FALSE]
                             /\ UNCHANGED <<pc, result, scanResult, rootIdx>>

\* The next call of the forEach of the root, or of the mapValues of the
\* call on top of the stack.
Call ==
    /\ pc = "scanning"
    /\ IF stack = << >>
       THEN /\ rootIdx < Len(RootList)
            /\ \E r \in Resolutions(packageDir, RootList[rootIdx + 1]) :
                 getDepPackageInfo(RootList[rootIdx + 1], r)
       ELSE /\ HasDeps(Top)
            /\ Top.i < Len(SubDeps(Top))
            /\ \E r \in Resolutions(Top.dir, SubDeps(Top)[Top.i + 1]) :
                 getDepPackageInfo(SubDeps(Top)[Top.i + 1], r)
    /\ UNCHANGED <<consulted, loaded, lastRead, topLevelDeps, packageCache, devFlag, rootPhase>>

\* One iteration of `for (const subDep of subDeps)`.
Classify ==
    /\ pc = "scanning"
    /\ stack # << >>
    /\ HasDeps(Top)
    /\ Top.i = Len(SubDeps(Top))
    /\ Top.j < Len(SubDeps(Top))
    /\ LET subDep     == SubDeps(Top)[Top.j + 1]
           subDepInfo == Top.infos[subDep]
           branch     == ClassifyBranch(subDepInfo.packageDir, Top.dir,
                                        isClaimed(subDep))
       IN  /\ stack' = [stack EXCEPT ![Len(stack)] =
                          [@ EXCEPT !.j = @ + 1,
                                    !.dependencies =
                                       IF branch \in {"local", "fallback"}
                                       THEN (subDep :> TreeRecord(subDepInfo)) @@ @
                                       ELSE @]]
           /\ topLevelDeps' = IF branch = "top"
                              THEN (subDep :> TreeRecord(subDepInfo)) @@ topLevelDeps
                              ELSE topLevelDeps
           /\ lastStep' = [op |-> "classify", threw |-> FALSE,
                           parentDir |-> Top.dir, name |-> subDep,
                           dir |-> subDepInfo.packageDir, branch |-> branch,
                           claimed |-> isClaimed(subDep)]
    /\ UNCHANGED <<pc, consulted, loaded, lastRead, result, fs, edges, packageCache, devFlag,
                   rootPhase, rootIdx, scanResult, entered>>

\* collectDepPackageInfo returns, getDepPackageInfo stores the record in the
\* cache and returns it.
Return ==
    /\ pc = "scanning"
    /\ stack # << >>
    /\ HasDeps(Top) => Top.i = Len(SubDeps(Top)) /\ Top.j = Len(SubDeps(Top))
    /\ LET info    == depPackageInfo(Top, devFlag)
           callers == SubSeq(stack, 1, Len(stack) - 1)
           name    == IF callers = << >> THEN RootList[rootIdx + 1]
                      ELSE SubDeps(callers[Len(callers)])[callers[Len(callers)].i + 1]
       IN  /\ packageCache' = (Top.path :> info) @@ packageCache
           /\ ReturnTo(callers, name, info)
    /\ lastStep' = [op |-> "return", threw |-> FALSE]
    /\ UNCHANGED <<pc, consulted, loaded, lastRead, result, fs, edges, topLevelDeps, devFlag,
                   rootPhase, scanResult, entered>>

\* devFlag raised before the production loop instead of after it
RaiseDevFlagEarly ==
    /\ pc = "scanning"
    /\ stack = << >>
    /\ rootPhase = "prod"
    /\ rootIdx = 0
    /\ ~devFlag
    /\ devFlag' = TRUE
    /\ lastStep' = [op |-> "dev", threw |-> FALSE]
    /\ UNCHANGED <<pc, consulted, loaded, lastRead, result, fs, edges, topLevelDeps,
                   packageCache, stack, rootPhase, rootIdx, scanResult, entered>>

\* The production loop is over: devFlag is raised and the keys of
\* `devDependencies` are taken.
RaiseDevFlag ==
    /\ pc = "scanning"
    /\ stack = << >>
    /\ rootPhase = "prod"
    /\ rootIdx = Len(RootList)
    /\ devFlag' = TRUE
    /\ IF ~ObjectKeys(fs[packageDir], "devDependencies").threw
       THEN /\ rootPhase' = "dev"
            /\ rootIdx' = 0
            /\ lastStep' = [op |-> "dev", threw |-> FALSE]
            /\ UNCHANGED <<pc, result, scanResult, stack>>
       ELSE /\ Throws("dev")
            /\ UNCHANGED <<rootPhase, rootIdx>>
    /\ UNCHANGED <<consulted, loaded, lastRead, fs, edges, topLevelDeps, packageCache, entered>>

\* `return topLevelDeps`, which settles the chain of getAllDependencies.
ScanReturn ==
    /\ pc = "scanning"
    /\ stack = << >>
    /\ rootPhase = "dev"
    /\ rootIdx = Len(RootList)
    /\ scanResult' = TreeResult(topLevelDeps)
    /\ result' = lastCatch(TreeResult(topLevelDeps))
    /\ pc' = "done"
    /\ lastStep' = [op |-> "end", threw |-> FALSE]
    /\ UNCHANGED <<consulted, loaded, lastRead, fs, edges, topLevelDeps, packageCache, devFlag,
                   stack, rootPhase, rootIdx, entered>>

Next ==
    \/ LoadPrimary
    \/ LoadFallback
    \/ ScanStart
    \/ Call
    \/ Classify
    \/ Return
    \/ RaiseDevFlag
    \/ ScanReturn

Spec == Init /\ [][Next]_vars

----------------------------------------------------------------------------
(* Properties.                                                             *)

SourceOrder == << PACKAGE_LOCK, NPM_SHRINKWRAP, SCANNER >>

IsPrefix(s, t) == Len(s) <= Len(t) /\ SubSeq(t, 1, Len(s)) = s

Range(s) == {s[i] : i \in DOMAIN s}

\* The filtered `dependencies` of a parsed lock file.
LockTreeOf(file) ==
    IF "dependencies" \in DOMAIN file.doc
    THEN filterTree(file.doc.dependencies) ELSE EmptyObject

\* C1: the sources are consulted in the order package-lock.json,
\* npm-shrinkwrap.json, scanner, each only after the ones before it failed;
\* once a lock file has loaded the call is over, no later source was
\* consulted and the result is that file's filtered `dependencies`; when
\* neither loaded, a returned tree is the scanner's.
C1_FirstSuccessWins ==
    /\ IsPrefix(consulted, SourceOrder)
    /\ loaded.source # "none" =>
          /\ pc = "done"
          /\ consulted[Len(consulted)] = loaded.source
          /\ result = TreeResult(LockTreeOf(loaded.file))
    /\ (pc = "done" /\ loaded.source = "none") =>
          /\ consulted = SourceOrder
          /\ result.kind = "tree" => result = scanResult
    /\ SCANNER \in Range(consulted) => loaded.source = "none"

\* The fallback lock file gave the (non-empty) tree after the primary failed.
C1_Witness ==
    /\ pc = "done"
    /\ consulted = << PACKAGE_LOCK, NPM_SHRINKWRAP >>
    /\ loaded.source = NPM_SHRINKWRAP
    /\ result.kind = "tree"
    /\ result.tree # EmptyObject

\* C2: when both lock files fail and the scan throws, getAllDependencies
\* ends with one error whose text names both lock files, and with no tree.
C2_AllSourcesFail ==
    scanResult.kind = "error" =>
       /\ consulted = SourceOrder
       /\ loaded.source = "none"
       /\ pc = "done"
       /\ result.kind = "error"
       /\ "message" \in DOMAIN result
       /\ {PACKAGE_LOCK, NPM_SHRINKWRAP} \subseteq Range(result.message)
       /\ "tree" \notin DOMAIN result

\* Both lock files failed and a lookup of the scan threw.
C2_Witness ==
    /\ scanResult.kind = "error"
    /\ lastStep.op = "call"
    /\ result.kind = "error"

\* C3: in the end-to-end scenario (the manifest declares only
\* dependencies {left-pad}, left-pad 1.3.0 sits at the shared root) the scan
\* returns exactly { left-pad: { version: 1.3.0, integrity: sha1-abc } }.
C3_LeftPadScenario ==
    (fs = LeftPadLayout /\ scanResult.kind # "pending") =>
       scanResult =
         TreeResult("left-pad" :> [version |-> "1.3.0", integrity |-> "sha1-abc"])

\* C9: once a manifest lookup has failed (a name that resolves nowhere, a
\* manifest that cannot be loaded, or any other exception of the scan) the
\* scan has ended with an error and neither it nor getAllDependencies gives
\* a tree, whatever topLevelDeps holds by then.
C9_ScanAllOrNothing ==
    (lastStep.threw \/ \E d \in DOMAIN fs : fs[d] = Malformed) =>
       /\ pc = "done"
       /\ scanResult.kind = "error"
       /\ "tree" \notin DOMAIN scanResult
       /\ result.kind = "error"
       /\ "tree" \notin DOMAIN result

\* The scan failed after top-level entries had been written.
C9_Witness ==
    /\ scanResult.kind = "error"
    /\ DOMAIN topLevelDeps # {}
    /\ lastStep.op = "call"
    /\ "tree" \notin DOMAIN result

CanonicalFields == {"version", "dev", "requires", "integrity", "dependencies"}

RECURSIVE OnlyCanonical(_)
\* Every record of the tree, at every depth, has canonical fields only.
OnlyCanonical(tree) ==
    \A n \in DOMAIN tree :
       /\ DOMAIN tree[n] \subseteq CanonicalFields
       /\ "dependencies" \in DOMAIN tree[n] => OnlyCanonical(tree[n].dependencies)

\* C10: every record of a produced tree, at every depth, carries only
\* fields of {version, dev, requires, integrity, dependencies}: the result
\* of a lock file, the top-level set of the scan at every moment, and the
\* nested `dependencies` the scan is building.
C10_CanonicalFields ==
    /\ result.kind = "tree" => OnlyCanonical(result.tree)
    /\ scanResult.kind = "tree" => OnlyCanonical(scanResult.tree)
    /\ OnlyCanonical(topLevelDeps)
    /\ \A k \in DOMAIN stack : OnlyCanonical(stack[k].dependencies)

\* The scan returned a tree with a record nested under a top-level record,
\* both copied from cached records that carry packageDir.
C10_Witness ==
    /\ scanResult.kind = "tree"
    /\ \E n \in DOMAIN scanResult.tree : "dependencies" \in DOMAIN scanResult.tree[n]
    /\ \A p \in DOMAIN packageCache : "packageDir" \in DOMAIN packageCache[p]


\* The install a name resolves to from a directory, by what is known of the
\* file system; NoDir when it resolves nowhere.
NoDir == << >>

KnownResolve(fromDir, name) ==
    LET cands == Candidates(fromDir, Chars[name])
        hits  == {k \in DOMAIN cands :
                    cands[k] \in DOMAIN fs /\ fs[cands[k]] # Absent}
    IN  IF hits = {} THEN NoDir
        ELSE cands[CHOOSE k \in hits : \A h \in hits : k <= h]

\* The names the manifest at d lists under key.
Listed(d, key) ==
    IF d \in DOMAIN fs /\ IsObject(fs[d]) /\ key \in DOMAIN fs[d]
    THEN Range(fs[d][key]) ELSE {}

RECURSIVE Closure(_)
\* The installs reachable from the installs S along `dependencies`.
Closure(S) ==
    LET more == S \cup (UNION { {KnownResolve(d, n) : n \in Listed(d, "dependencies")} :
                                 d \in S } \ {NoDir})
    IN  IF more = S THEN S ELSE Closure(more)

\* The installs reachable from the production dependencies of the project.
ProdReachable ==
    Closure({KnownResolve(packageDir, n) : n \in Listed(packageDir, "dependencies")}
              \ {NoDir})

RECURSIVE Entries(_)
\* The <<name, record>> pairs of a tree, at every depth.
Entries(tree) ==
    UNION { { <<n, tree[n]>> } \cup
            (IF "dependencies" \in DOMAIN tree[n]
             THEN Entries(tree[n].dependencies) ELSE {}) : n \in DOMAIN tree }

\* Every record the scan has put in a tree so far.
ScanEntries ==
    Entries(topLevelDeps) \cup UNION { Entries(stack[k].dependencies) : k \in DOMAIN stack }

HasDev(rec) == "dev" \in DOMAIN rec

\* C4: the record of an install reachable from a production dependency of
\* the project never has dev: a cached record has dev exactly when
\* collectDepPackageInfo was first entered for it in the development phase,
\* no such install is reachable from production, and a record with dev in a
\* tree is the copy of such a cached record.
C4_ProdNeverDev ==
    /\ \A p \in DOMAIN packageCache :
          /\ HasDev(packageCache[p]) <=> entered[p].dev
          /\ HasDev(packageCache[p]) => dirname(p) \notin ProdReachable
    /\ \A e \in ScanEntries :
          HasDev(e[2]) =>
             \E p \in DOMAIN packageCache :
                /\ basename(dirname(p)) = Chars[e[1]]
                /\ TreeRecord(packageCache[p]) = e[2]
                /\ entered[p].dev
                /\ dirname(p) \notin ProdReachable

\* A finished scan in which a development-phase package (record with dev)
\* requires an install that production reaches too, whose record has no dev.
C4_Witness ==
    /\ scanResult.kind = "tree"
    /\ \E p, q \in DOMAIN packageCache :
          /\ HasDev(packageCache[q])
          /\ ~HasDev(packageCache[p])
          /\ dirname(p) \in ProdReachable
          /\ \E n \in Listed(dirname(q), "dependencies") :
                KnownResolve(dirname(q), n) = dirname(p)

RECURSIVE PathsTo(_, _, _)
\* The places (key paths) of a tree that hold record rec under name n.
PathsTo(tree, n, rec) ==
    (IF n \in DOMAIN tree /\ tree[n] = rec THEN { <<n>> } ELSE {})
      \cup UNION { IF "dependencies" \in DOMAIN tree[k]
                   THEN { <<k>> \o q : q \in PathsTo(tree[k].dependencies, n, rec) }
                   ELSE {} : k \in DOMAIN tree }

\* The name under which the package of manifest path p is installed.
NameOf(p) == CHOOSE n \in Names : Chars[n] = basename(dirname(p))

\* The record of manifest path p is somewhere in the tree.
InTree(tree, p) == PathsTo(tree, NameOf(p), TreeRecord(packageCache[p])) # {}

\* C5: when two packages of the returned tree require the same name and
\* both resolve it to the same install, the tree holds the record of that
\* install exactly once.
C5_DiamondOneRecord ==
    scanResult.kind = "tree" =>
       \A pa, pb \in DOMAIN packageCache : \A n \in Names :
          ( /\ pa # pb
            /\ n \in Listed(dirname(pa), "dependencies")
            /\ n \in Listed(dirname(pb), "dependencies")
            /\ KnownResolve(dirname(pa), n) = KnownResolve(dirname(pb), n)
            /\ InTree(scanResult.tree, pa)
            /\ InTree(scanResult.tree, pb) )
          => Cardinality(PathsTo(scanResult.tree, n,
                TreeRecord(packageCache[join(KnownResolve(dirname(pa), n),
                                             PACKAGE_JSON)]))) = 1

\* C6: collectDepPackageInfo is entered at most once for each manifest path.
C6_AtMostOneResolution ==
    \A p \in DOMAIN entered : entered[p].n <= 1

\* C7: a classified child that sits directly under the shared root and whose
\* name has no top-level entry yet is put in the top-level set and not in
\* its parent's dependencies.
C7_SharedRootPromoted ==
    ( /\ lastStep.op = "classify"
      /\ dirname(lastStep.dir) = packageNodeModules
      /\ ~lastStep.claimed )
    => /\ lastStep.name \in DOMAIN topLevelDeps
       /\ lastStep.name \notin DOMAIN Top.dependencies

\* The loop of the call on top of the stack is about to classify a child.
Classifying ==
    /\ pc = "scanning"
    /\ stack # << >>
    /\ HasDeps(Top)
    /\ Top.i = Len(SubDeps(Top))
    /\ Top.j < Len(SubDeps(Top))

NextSubDep == SubDeps(Top)[Top.j + 1]

\* C8: the step that classifies a child installed in its parent's own
\* node_modules leaves the top-level set as it is and puts the child's
\* record in the parent's dependencies under its name.
C8_NestedStaysLocal ==
    [][ ( /\ Classifying
          /\ Top.infos[NextSubDep].packageDir = Nested(Top.dir, NextSubDep) )
        => /\ topLevelDeps' = topLevelDeps
           /\ NextSubDep \in DOMAIN stack'[Len(stack)].dependencies
           /\ stack'[Len(stack)].dependencies[NextSubDep] =
                [f \in DOMAIN Top.infos[NextSubDep] \cap CanonicalFields |->
                   Top.infos[NextSubDep][f]] ]_vars

\* A child nested in a parent that is installed above the project tree has
\* just been classified as local.
C8_Witness ==
    /\ lastStep.op = "classify"
    /\ lastStep.dir = Nested(lastStep.parentDir, lastStep.name)
    /\ indexOf(lastStep.parentDir, packageDir) # 0
    /\ lastStep.name \in DOMAIN Top.dependencies

----------------------------------------------------------------------------
(* filterTree and the lock-file loader on the files that were read.        *)

RECURSIVE DepsNeverEmpty(_)
\* At every depth, a record that has `dependencies` has a child under it.
DepsNeverEmpty(tree) ==
    \A n \in DOMAIN tree :
       "dependencies" \in DOMAIN tree[n] =>
          /\ DOMAIN tree[n].dependencies # {}
          /\ DepsNeverEmpty(tree[n].dependencies)

\* C11: in the output of filterTree a record has `dependencies` exactly
\* when it has at least one child; `dependencies` is never present and
\* empty, at any depth.
C11_DependenciesIffChildren ==
    loaded.source # "none" => DepsNeverEmpty(result.tree)

\* C12: filterTree applied to its own output returns, and returns that
\* output: the same keys and the same records at every depth.
C12_Idempotent ==
    loaded.source # "none" =>
       /\ result.tree = LockTreeOf(loaded.file)
       /\ ~filterTreeThrows(result.tree)
       /\ filterTree(result.tree) = result.tree
       /\ filterTree(filterTree(result.tree)) = filterTree(result.tree)

\* A lock file was loaded whose tree nests a record under another and whose
\* raw nodes had fields that filterTree removed.
C12_Witness ==
    /\ loaded.source # "none"
    /\ "dependencies" \in DOMAIN loaded.file.doc
    /\ result.tree # loaded.file.doc.dependencies
    /\ \E n \in DOMAIN result.tree :
          /\ "dependencies" \in DOMAIN result.tree[n]
          /\ \E k \in DOMAIN result.tree[n].dependencies :
                "integrity" \in DOMAIN result.tree[n].dependencies[k]

\* The lock file read last parsed to a document whose `dependencies` is a
\* mapping of names to raw nodes.
ReadMapping ==
    /\ lastRead.source # "none"
    /\ lastRead.file.kind = "json"
    /\ "dependencies" \in DOMAIN lastRead.file.doc

\* C17: filterTree returns for every mapping of names to raw nodes, null
\* and non-object nodes included: the read of such a lock file is never
\* rejected and gives a tree with the keys of the mapping.
C17_FilterTreeTotal ==
    ReadMapping =>
       /\ ~lastRead.rejected
       /\ result.kind = "tree"
       /\ DOMAIN result.tree = DOMAIN lastRead.file.doc.dependencies

\* The lock file read last parsed as JSON and has no `dependencies`.
ReadWithoutDependencies ==
    /\ lastRead.source # "none"
    /\ lastRead.file.kind = "json"
    /\ "dependencies" \notin DOMAIN lastRead.file.doc

\* The read was a success that ended the call with the empty tree, no
\* later source consulted.
EndedWithEmptyTree ==
    /\ ~lastRead.rejected
    /\ loaded = [source |-> lastRead.source, file |-> lastRead.file]
    /\ result = TreeResult(EmptyObject)
    /\ pc = "done"
    /\ consulted[Len(consulted)] = lastRead.source
    /\ NPM_SHRINKWRAP \in Range(consulted) => lastRead.source = NPM_SHRINKWRAP
    /\ SCANNER \notin Range(consulted)

\* C19 as stated: every lock file that parses as JSON and has no
\* `dependencies` is a successful source giving the empty tree.
C19_ParsedWithoutDependencies ==
    ReadWithoutDependencies => EndedWithEmptyTree

\* C19: a lock file that parses to a JSON value other than null and has no
\* `dependencies` is a successful source: the call ends with the empty tree
\* and no later source is consulted; a lock file that parses to null is a
\* failed source, and the next source is tried.
C19_NonNullWithoutDependencies ==
    ReadWithoutDependencies =>
       IF lastRead.file.doc = NullValue
       THEN /\ lastRead.rejected
            /\ loaded.source = "none"
            /\ pc = (IF lastRead.source = PACKAGE_LOCK THEN "fallback" ELSE "scan")
       ELSE EndedWithEmptyTree

\* The primary lock file is an object without `dependencies`, and the call
\* has ended with the empty tree.
C19_Witness ==
    /\ ReadWithoutDependencies
    /\ lastRead.source = PACKAGE_LOCK
    /\ IsObject(lastRead.file.doc)
    /\ consulted = << PACKAGE_LOCK >>
    /\ result = TreeResult(EmptyObject)

----------------------------------------------------------------------------
(* The top-level set of the scan.                                          *)

\* C13: a top-level entry, once written, stays as written in every later
\* step of the scan: it is neither removed nor replaced, also when another
\* install of the same name qualifies for promotion later.
C13_FirstWriterWins ==
    [][ \A n \in DOMAIN topLevelDeps :
           /\ n \in DOMAIN topLevelDeps'
           /\ topLevelDeps'[n] = topLevelDeps[n] ]_vars

\* A child that qualifies for promotion has just been classified while the
\* top-level entry of its name is the record of another install.
C13_Witness ==
    /\ lastStep.op = "classify"
    /\ lastStep.claimed
    /\ isTopLevelDep(lastStep.dir)
    /\ ~isLocalDep(lastStep.dir, lastStep.parentDir)
    /\ topLevelDeps[lastStep.name].version # VersionAt(lastStep.dir)

\* C14: a classified child that qualifies for promotion (outside the project
\* tree or directly under the shared root, and not inside its parent's
\* directory) whose name already has a top-level entry is dropped: it is
\* not put in its parent's dependencies either.
C14_LaterClaimDropped ==
    ( /\ lastStep.op = "classify"
      /\ lastStep.claimed
      /\ isTopLevelDep(lastStep.dir)
      /\ ~isLocalDep(lastStep.dir, lastStep.parentDir) )
    => lastStep.name \notin DOMAIN Top.dependencies

----------------------------------------------------------------------------
(* The two phases of the scan.                                             *)

\* Every production dependency of the project, and every install reachable
\* from one, has been resolved to the end: its record is in the cache.
ProdComplete ==
    /\ \A n \in Listed(packageDir, "dependencies") :
          KnownResolve(packageDir, n) # NoDir
    /\ \A d \in ProdReachable : join(d, PACKAGE_JSON) \in DOMAIN packageCache
    /\ \A p \in DOMAIN entered : ~entered[p].dev => p \in DOMAIN packageCache

\* devFlag is false until the scan has started; while it is false the scan
\* is in the production phase and nothing was resolved with the flag up;
\* once it is up, and in the whole development phase, the production
\* dependencies are complete.
PhaseOrder ==
    /\ pc \in {"primary", "fallback", "scan"} => ~devFlag
    /\ ~devFlag => /\ rootPhase = "prod"
                   /\ \A p \in DOMAIN entered : ~entered[p].dev
    /\ devFlag => ProdComplete
    /\ rootPhase = "dev" => devFlag
    /\ \A p \in DOMAIN entered : entered[p].dev => rootPhase = "dev"

\* C15: devFlag is false at the start of the scan and never returns to
\* false; it is raised in a step taken with an empty call stack after the
\* last production dependency of the project, when every production
\* resolution, transitive ones included, has returned; every resolution that
\* starts from a development dependency of the project starts after that.
C15_ProdBeforeDev ==
    /\ []PhaseOrder
    /\ [][ /\ devFlag => devFlag'
           /\ (~devFlag /\ devFlag') =>
                 /\ stack = << >>
                 /\ rootIdx = Len(ObjectKeys(fs[packageDir], "dependencies").keys)
                 /\ ProdComplete ]_vars

\* A finished scan that resolved a production dependency with one of its
\* own dependencies, and then a development dependency.
C15_Witness ==
    /\ scanResult.kind = "tree"
    /\ \E p, q, r \in DOMAIN entered :
          /\ ~entered[p].dev
          /\ ~entered[q].dev
          /\ dirname(p) \in {KnownResolve(packageDir, n) :
                                n \in Listed(packageDir, "dependencies")}
          /\ dirname(q) \in {KnownResolve(dirname(p), n) :
                                n \in Listed(dirname(p), "dependencies")}
          /\ p # q
          /\ entered[r].dev

----------------------------------------------------------------------------
(* The `dependencies` of the records of the scan.                          *)

\* No record the scan holds, at any depth, has an empty `dependencies`:
\* cached records, top-level entries, and the children kept by the calls in
\* progress.
RecordsNeverEmpty ==
    /\ DepsNeverEmpty(packageCache)
    /\ DepsNeverEmpty(topLevelDeps)
    /\ \A k \in DOMAIN stack : DepsNeverEmpty(stack[k].dependencies)
    /\ scanResult.kind = "tree" => DepsNeverEmpty(scanResult.tree)

\* The call on top of the stack is about to return its record.
Returning ==
    /\ pc = "scanning"
    /\ stack # << >>
    /\ HasDeps(Top) => Top.i = Len(SubDeps(Top)) /\ Top.j = Len(SubDeps(Top))

\* C16: a record of the scan has `dependencies` exactly when a child of its
\* package was classified as local to it (nested in it, or kept under it as
\* the fallback), and `dependencies` then holds those children;
\* `dependencies` is never present and empty, in a cached, promoted or
\* nested record.
C16_DependenciesIffLocalChild ==
    /\ []RecordsNeverEmpty
    /\ [][ /\ Classifying =>
                /\ NextSubDep \in DOMAIN stack'[Len(stack)].dependencies
                      <=> lastStep'.branch \in {"local", "fallback"}
                /\ DOMAIN stack'[Len(stack)].dependencies \ {NextSubDep}
                      = DOMAIN Top.dependencies \ {NextSubDep}
           /\ Returning =>
                /\ Top.path \in DOMAIN packageCache'
                /\ "dependencies" \in DOMAIN packageCache'[Top.path]
                      <=> DOMAIN Top.dependencies # {}
                /\ DOMAIN Top.dependencies # {} =>
                      packageCache'[Top.path].dependencies = Top.dependencies
                /\ ~HasDeps(Top) => DOMAIN Top.dependencies = {} ]_vars

\* A finished scan with a record that has a child under `dependencies` and
\* a record of a package whose children were all promoted or dropped.
C16_Witness ==
    /\ scanResult.kind = "tree"
    /\ \E p, q \in DOMAIN packageCache :
          /\ "requires" \in DOMAIN packageCache[p]
          /\ DOMAIN packageCache[p].requires # {}
          /\ "dependencies" \notin DOMAIN packageCache[p]
          /\ "dependencies" \in DOMAIN packageCache[q]

----------------------------------------------------------------------------
(* The keys of the project manifest.                                       *)

\* The project manifest, once the scan has loaded it.
ScannedManifest == fs[packageDir]

\* C20: when the project manifest lacks `dependencies` the scan fails at
\* once, before any lookup; when it lacks only `devDependencies` the scan
\* never returns a tree and, if the production phase gets through, fails
\* right after it; each time getAllDependencies ends with the error that
\* names the two lock files, and with no tree.
C20_BothKeysRequired ==
    (SCANNER \in Range(consulted) /\ IsObject(ScannedManifest)) =>
       /\ "dependencies" \notin DOMAIN ScannedManifest =>
             /\ pc = "done"
             /\ lastStep = [op |-> "start", threw |-> TRUE]
             /\ DOMAIN entered = {}
             /\ scanResult.kind = "error"
             /\ result = ErrorResult(FinalErrorMessage)
       /\ ( /\ "dependencies" \in DOMAIN ScannedManifest
            /\ "devDependencies" \notin DOMAIN ScannedManifest ) =>
             /\ scanResult.kind # "tree"
             /\ result.kind # "tree"
             /\ pc = "scanning" => rootPhase = "prod" /\ ~devFlag
             /\ pc = "done" =>
                   /\ scanResult.kind = "error"
                   /\ result = ErrorResult(FinalErrorMessage)
                   /\ lastStep.threw
             /\ lastStep.op = "dev" =>
                   /\ lastStep.threw
                   /\ ProdComplete
                   /\ rootIdx = Len(ScannedManifest.dependencies)

\* The manifest has no `devDependencies`: the production phase wrote a
\* top-level entry, then the scan failed and the caller got the error.
C20_Witness ==
    /\ SCANNER \in Range(consulted)
    /\ IsObject(ScannedManifest)
    /\ "devDependencies" \notin DOMAIN ScannedManifest
    /\ lastStep = [op |-> "dev", threw |-> TRUE]
    /\ DOMAIN topLevelDeps # {}
    /\ result = ErrorResult(FinalErrorMessage)

----------------------------------------------------------------------------
(* Dependency cycles and the end of the scan.                              *)

\* The installs the manifest at d requires, as they resolve from d.
Children(d) ==
    {KnownResolve(d, n) : n \in Listed(d, "dependencies")} \ {NoDir}

\* d requires itself, directly or through other installs.
OnCycle(d) == d \in Closure(Children(d))

\* The installs reachable from the project: from its dependencies and its
\* devDependencies.
Reachable ==
    Closure({KnownResolve(packageDir, n) :
               n \in Listed(packageDir, "dependencies")
                       \cup Listed(packageDir, "devDependencies")} \ {NoDir})

\* The installs for which collectDepPackageInfo was entered.
EnteredDirs == {dirname(p) : p \in DOMAIN entered}

\* C18 as stated: the scan comes to an end only on a layout without a
\* dependency cycle.
C18_EndsOnlyIfAcyclic ==
    scanResult.kind # "pending" => \A d \in Reachable : ~OnCycle(d)

\* What holds of cycles and re-entry at every moment of the scan.
CycleSafety ==
    /\ scanResult.kind = "tree" =>
          /\ \A d \in Reachable : ~OnCycle(d)
          /\ EnteredDirs = Reachable
          /\ \A p \in DOMAIN entered : entered[p].n = 1
    /\ \A p \in DOMAIN entered :
          entered[p].n >= 2 =>
             /\ OnCycle(dirname(p))
             /\ p \notin DOMAIN packageCache
             /\ scanResult.kind # "tree"
    /\ (pc = "scanning" /\ stack = << >>) => \A d \in EnteredDirs : ~OnCycle(d)
    /\ Len(stack) <= MaxStack

\* How far the call has got: the stage of the chain, the phase and the
\* place in the loop of the project's dependencies, and for every call on
\* the stack, outermost first, the children it has resolved and classified
\* (0 where the stack has no call).
Progress ==
    << CASE pc = "primary" -> 0 [] pc = "fallback" -> 1 [] pc = "scan" -> 2
         [] pc = "scanning" -> 3 [] OTHER -> 4,
       IF rootPhase = "prod" THEN 0 ELSE 1,
       rootIdx >>
      \o [k \in 1..MaxStack |->
            IF k <= Len(stack) THEN 1 + stack[k].i + stack[k].j ELSE 0]

\* s comes before t in the lexicographic order
LexLess(s, t) ==
    \E k \in DOMAIN s :
       /\ s[k] < t[k]
       /\ \A h \in 1..(k - 1) : s[h] = t[h]

\* Every component of Progress stays within its range.
ProgressBounded ==
    /\ rootIdx <= MaxDeps
    /\ \A k \in DOMAIN stack :
          stack[k].i <= MaxDeps /\ stack[k].j <= stack[k].i

\* C18: the scan returns a tree only on a layout whose dependency graph
\* has no cycle, and then after exactly one resolution of every reachable
\* manifest.  On a cycle the re-entrant lookup finds no cache entry and the
\* same path is resolved again, call inside call, until the call stack is
\* exhausted: the scan ends with that error and returns no tree.  With or
\* without a cycle the call takes finitely many steps: every step moves
\* Progress, which is bounded, up in the lexicographic order.
C18_CycleNeverReturnsTree ==
    /\ [](CycleSafety /\ ProgressBounded)
    /\ [][LexLess(Progress, Progress')]_vars

\* The scan re-entered a manifest on a cycle and ended with an error.
C18_Witness ==
    /\ scanResult.kind = "error"
    /\ pc = "done"
    /\ \E p \in DOMAIN entered : entered[p].n >= 2 /\ OnCycle(dirname(p))

============================================================================
